---- MODULE Spec2Model ----
(***************************************************************************)
(* Host-side time-stepping engine of the KP07 shallow-water simulator      *)
(* (gpuocean/SWEsimulators/KP07.py on top of Simulator.py).                *)
(*                                                                         *)
(* Times are counted in integer ticks.  Integers of this size are exactly  *)
(* representable in np.float32 and np.float64, so the conversions of       *)
(* KP07.step (np.float32(local_dt), np.float64(local_dt)) and the float    *)
(* division t_end / self.dt followed by int() are exact on them.           *)
(*                                                                         *)
(* Device buffers hold abstract contents: a record                         *)
(*   [data, gen, pred, bc]                                                 *)
(* data : which host arrays the contents descend from,                     *)
(* gen  : how many completed sub-steps have been applied to them,          *)
(* pred : TRUE for the intermediate (stage 0) result of an RK2 sub-step,   *)
(* bc   : TRUE when the boundary-condition kernel ran on the buffers after *)
(*        their last write.                                                *)
(***************************************************************************)
EXTENDS Integers, Sequences, FiniteSets, TLC

VARIABLES
    sims,      \* simulator objects: [Sims -> record of the object's attributes]
    log,       \* operations the last call issued on the GPU stream, the logger and the writer
    last,      \* the last call: its name, arguments, and result
    stepped    \* the simulators on which step() has been called since construction

vars == <<sims, log, last, stepped>>

----------------------------------------------------------------------------
(* Bounds of the model *)

\* The clock of a simulator is not advanced beyond MaxT ticks.
MaxT == 5

\* Largest t_end handed to step().
MaxTEnd == 3

----------------------------------------------------------------------------
(* Inputs *)

Sims == {1, 2}

\* Values of the constructor's dt parameter.
DtSet == {2}

\* Values of the constructor's t parameter (fromfilename passes the persisted time).
InitTimes == {-1, 0, 1}

\* Values of step()'s t_end parameter.
TEnds == (-1) .. MaxTEnd

\* WindStress objects handed to the constructor: their time axes (WindStress.t).
\* Object 1 is the axis [0, 10, 20] in ticks of 5; object 2 is a single sample;
\* object 3 repeats a timestamp.
WindStressObjects == << <<0, 2, 4>>, <<2>>, <<0, 0, 2>>, <<0>> >>

\* The wind series simulator 1 may be built with.
InitWinds == {1, 2, 3}

\* WindStress.WindStress(), the constructor's default: one sample, at time 0.
DefaultWindStress == Len(WindStressObjects)

\* AtmosphericPressure objects: their time axes (AtmosphericPressure.t).
AtmosphericPressureObjects == << <<1, 3>>, <<0>> >>

\* AtmosphericPressure.AtmosphericPressure(), the constructor's default.
DefaultAtmosphericPressure == Len(AtmosphericPressureObjects)

\* Boundary-condition configurations: a kind per edge and the sponge widths
\* (north, east, south, west).  The first is Common.BoundaryConditions(), the default.
BoundaryConditionsObjects ==
    << [north |-> "wall", east |-> "wall", south |-> "wall", west |-> "wall",
        spongeCells |-> <<0, 0, 0, 0>>],
       [north |-> "periodic", east |-> "periodic", south |-> "periodic", west |-> "periodic",
        spongeCells |-> <<0, 0, 0, 0>>],
       [north |-> "sponge", east |-> "sponge", south |-> "sponge", west |-> "sponge",
        spongeCells |-> <<3, 4, 3, 5>>],
       [north |-> "wall", east |-> "sponge", south |-> "wall", west |-> "wall",
        spongeCells |-> <<0, 6, 0, 0>>] >>

DefaultBoundaryConditions == BoundaryConditionsObjects[1]

\* (ny, nx) of the simulators.
DomainA == <<2, 2>>
DomainB == <<2, 3>>

\* Host arrays: the initial conditions of the two simulators, and arrays given to upload().
InitialData == [s \in Sims |-> s]
UploadData == {3}

\* Arrays whose elevation lies below the bed somewhere (eta < -Hm), and for each the
\* array np.maximum(eta, -Hm) makes of it.
BelowBed == {5}
Clamped == [a \in BelowBed |-> a + 1]

\* How many device operations of a step call the device accepts before it rejects
\* one; -1: it rejects none.
FailAfter == (-1) .. 4

\* What step may do on a simulator whose device buffers cleanUp has released: run as
\* if nothing had happened, or raise at any one of its first device operations.
AfterRelease == (-1) .. 2

\* Python's None, and an optional value that is present.
None == <<>>
Some(x) == <<x>>

\* The optional second triple of upload(): absent, or other arrays.
SecondUploadData == {None, Some(4)}

----------------------------------------------------------------------------
(* Helpers *)

Max(a, b) == IF a >= b THEN a ELSE b

Min(a, b) == IF a <= b THEN a ELSE b

RECURSIVE GCD(_, _)
GCD(a, b) == IF b = 0 THEN a ELSE GCD(b, a % b)

\* A fraction in lowest terms.
Ratio(n, d) == <<n \div GCD(n, d), d \div GCD(n, d)>>

\* int(x) of a quotient a / b, b > 0: truncation towards zero.
IntTrunc(a, b) == IF a >= 0 THEN a \div b ELSE -((-a) \div b)

\* Sequence indices are 0-based in the program.
At(seq, i) == seq[i + 1]

Content(data, gen, pred, bc) == [data |-> data, gen |-> gen, pred |-> pred, bc |-> bc]

\* The arrays a caller hands over: nothing computed on them, ghost cells as they are.
HostArrays(data) == Content(data, 0, FALSE, FALSE)

----------------------------------------------------------------------------
(* A call in progress: the simulator object it runs on, the operations it has
   issued so far, whether an exception has left it, and the device under it:
   fail_after is the number of device operations (kernel launches, forcing uploads)
   the driver accepts before it rejects one, -1 when it rejects none. *)

Frame(sim) == [sim |-> sim, log |-> <<>>, raised |-> FALSE, fail_after |-> -1]

\* The call on a device that rejects its (n+1)-th operation.
FrameFailing(sim, n) == [Frame(sim) EXCEPT !.fail_after = n]

Emit(fr, e) == [fr EXCEPT !.log = Append(@, e)]

\* An exception leaves the call at operation e, which did not take place.
Raise(fr, e) == [Emit(fr, e) EXCEPT !.raised = TRUE]

\* The device accepted one more operation.
Accepted(fr) == [fr EXCEPT !.fail_after = IF @ > 0 THEN @ - 1 ELSE @]

----------------------------------------------------------------------------
(* Temporal interpolation of the forcing fields (Simulator.py) *)

\* np.searchsorted(a, v, side='right'): the number of elements of a that are <= v.
SearchSortedRight(a, v) == Cardinality({i \in 1 .. Len(a) : a[i] <= v})

\* np.searchsorted(a, v) with the default side='left' on a sorted array:
\* the number of elements of a that are < v.
SearchSorted(a, v) == Cardinality({i \in 1 .. Len(a) : a[i] < v})

\* Faulty variant: the lower index taken two places below the insertion point.
T0IndexTwoBelow(axis, t) == Max(0, SearchSorted(axis, t) - 2)

\* t0_index = max(0, np.searchsorted(axis, t) - 1)
T0Index(axis, t) == Max(0, SearchSorted(axis, t) - 1)

\* t1_index = min(t_max_index, np.searchsorted(axis, t))
T1Index(axis, t) == Min(Len(axis) - 1, SearchSorted(axis, t))

\* "if (new_t0 != old_t0)": old is None (here <<>>) before the first refresh of a key.
IntervalChanged(new_t, old_t) == old_t # Some(new_t)

\* max(0.0, min(1.0, elapsed_since_t0 / time_interval)) as a fraction in lowest terms.
Clamp01(elapsed, interval) ==
    IF elapsed <= 0 THEN <<0, 1>>
    ELSE IF elapsed >= interval THEN <<1, 1>>
    ELSE Ratio(elapsed, interval)

\* The coefficient with the elapsed time taken as new_t0 - t.
InterpolationCoefficientSignSlip(t, new_t0, new_t1) ==
    LET elapsed_since_t0 == new_t0 - t
    IN  IF new_t1 - new_t0 >= 1
        THEN Clamp01(elapsed_since_t0, new_t1 - new_t0)
        ELSE IF elapsed_since_t0 <= 0 THEN <<0, 1>> ELSE <<1, 1>>

\* The interpolation coefficient.  time_interval = max(1.0e-10, new_t1 - new_t0):
\* a difference of at least one tick is itself; a difference of zero gives 1.0e-10,
\* and elapsed / 1.0e-10 is <= 0 for elapsed <= 0 and >= 1e10 for elapsed >= one tick.
InterpolationCoefficient(t, new_t0, new_t1) ==
    LET elapsed_since_t0 == t - new_t0
    IN  IF new_t1 - new_t0 >= 1
        THEN Clamp01(elapsed_since_t0, new_t1 - new_t0)
        ELSE IF elapsed_since_t0 <= 0 THEN <<0, 1>> ELSE <<1, 1>>

\* self.gpu_stream.synchronize() and self.gpu_ctx.synchronize(): the call returns
\* when everything enqueued on the simulator's stream has completed.
synchronize(fr, what) ==
    Emit([fr EXCEPT !.sim.gpu_stream = {}], [k |-> what])

\* An operation enqueued on the simulator's stream: it runs after the ones enqueued
\* before it and is not known to have completed until a synchronize returns.  The
\* stream holds "work" (kernels, copies of the buffer sets) or a "snapshot" transfer.
Enqueue(fr, what) == [fr EXCEPT !.sim.gpu_stream = @ \cup {what}]

\* Faulty variant: the upload enqueued without draining the stream first.
ReloadWithoutDrain(fr, arr, field) ==
    IF fr.raised THEN fr
    ELSE IF fr.fail_after = 0
    THEN Raise(fr, [k |-> "failed", op |-> "upload", arr |-> arr])
    ELSE LET f3 == Emit(Enqueue(Accepted([fr EXCEPT !.sim[arr] = field]), "snapshot"),
                        [k |-> "upload", arr |-> arr, field |-> field,
                         in_flight |-> fr.sim.gpu_stream])
         IN  synchronize(f3, "ctx.synchronize")

\* self.gpu_stream.synchronize(); self.gpu_ctx.synchronize(); <arr>.upload(...);
\* self.gpu_ctx.synchronize().  The snapshot buffer arr of the simulator then holds
\* field; an upload the device rejects raises and leaves the buffer as it was.
\* in_flight is what was still enqueued on the stream when the upload started.
Reload(fr, arr, field) ==
    IF fr.raised THEN fr
    ELSE LET f1 == synchronize(fr, "stream.synchronize")
             f2 == synchronize(f1, "ctx.synchronize")
         IN  IF fr.fail_after = 0
             THEN Raise(f2, [k |-> "failed", op |-> "upload", arr |-> arr])
             ELSE LET f3 == Emit(Enqueue(Accepted([f2 EXCEPT !.sim[arr] = field]), "snapshot"),
                                 [k |-> "upload", arr |-> arr, field |-> field,
                                  in_flight |-> f2.sim.gpu_stream])
                  IN  synchronize(f3, "ctx.synchronize")

\* Faulty variant: one test for the whole interval, both snapshot buffers uploaded
\* when either timestamp changed.
update_wind_stressWholeInterval(fr) ==
    LET sim == fr.sim
        axis == WindStressObjects[sim.wind_stress]
        t0_index == T0Index(axis, sim.t)
        t1_index == T1Index(axis, sim.t)
        new_t0 == At(axis, t0_index)
        new_t1 == At(axis, t1_index)
        old == sim.wind_stress_timestamps
        old_t0 == IF old = None THEN None ELSE Some(old[1])
        old_t1 == IF old = None THEN None ELSE Some(old[2])
        changed == IntervalChanged(new_t0, old_t0) \/ IntervalChanged(new_t1, old_t1)
        f0 == Emit(fr, [k |-> "update_wind_stress", t |-> sim.t, series |-> sim.wind_stress,
                        t0_index |-> t0_index, t1_index |-> t1_index,
                        new_t0 |-> new_t0, new_t1 |-> new_t1,
                        old_indices |-> sim.wind_stress_indices, old |-> old,
                        wind_stress_t |-> InterpolationCoefficient(sim.t, new_t0, new_t1)])
        f1 == IF changed
              THEN Reload(f0, "wind_stress_current_arr", <<sim.wind_stress, t0_index>>)
              ELSE f0
        f2 == IF changed
              THEN Reload(f1, "wind_stress_next_arr", <<sim.wind_stress, t1_index>>)
              ELSE f1
    IN  [f2 EXCEPT !.sim.wind_stress_timestamps = <<new_t0, new_t1>>,
                   !.sim.wind_stress_indices = <<t0_index, t1_index>>]

\* Simulator.update_wind_stress: the simulator after the call and what it issued.
\* The first entry issued is the logger's record of the query ("Time indices",
\* "New interval is ..., old was ..."), old being the cached timestamps the query
\* found; wind_stress_indices keeps the indices of the last query for the properties
\* that compare two queries.
update_wind_stress(fr) ==
    LET sim == fr.sim
        axis == WindStressObjects[sim.wind_stress]
        t0_index == T0Index(axis, sim.t)
        t1_index == T1Index(axis, sim.t)
        new_t0 == At(axis, t0_index)
        new_t1 == At(axis, t1_index)
        old == sim.wind_stress_timestamps
        old_t0 == IF old = None THEN None ELSE Some(old[1])
        old_t1 == IF old = None THEN None ELSE Some(old[2])
        f0 == Emit(fr, [k |-> "update_wind_stress", t |-> sim.t, series |-> sim.wind_stress,
                        t0_index |-> t0_index, t1_index |-> t1_index,
                        new_t0 |-> new_t0, new_t1 |-> new_t1,
                        old_indices |-> sim.wind_stress_indices, old |-> old,
                        wind_stress_t |-> InterpolationCoefficient(sim.t, new_t0, new_t1)])
        f1 == IF IntervalChanged(new_t0, old_t0)
              THEN Reload(f0, "wind_stress_current_arr", <<sim.wind_stress, t0_index>>)
              ELSE f0
        f2 == IF IntervalChanged(new_t1, old_t1)
              THEN Reload(f1, "wind_stress_next_arr", <<sim.wind_stress, t1_index>>)
              ELSE f1
    IN  [f2 EXCEPT !.sim.wind_stress_timestamps = <<new_t0, new_t1>>,
                   !.sim.wind_stress_indices = <<t0_index, t1_index>>]

\* The value update_wind_stress returns.
wind_stress_t(sim) ==
    LET axis == WindStressObjects[sim.wind_stress]
    IN  InterpolationCoefficient(sim.t, At(axis, T0Index(axis, sim.t)),
                                 At(axis, T1Index(axis, sim.t)))

\* Simulator.update_atmospheric_pressure: the same steps on the pressure series.
update_atmospheric_pressure(fr) ==
    LET sim == fr.sim
        axis == AtmosphericPressureObjects[sim.atmospheric_pressure]
        t0_index == T0Index(axis, sim.t)
        t1_index == T1Index(axis, sim.t)
        new_t0 == At(axis, t0_index)
        new_t1 == At(axis, t1_index)
        old == sim.atmospheric_pressure_timestamps
        old_t0 == IF old = None THEN None ELSE Some(old[1])
        old_t1 == IF old = None THEN None ELSE Some(old[2])
        f0 == Emit(fr, [k |-> "update_atmospheric_pressure", t |-> sim.t,
                        series |-> sim.atmospheric_pressure,
                        t0_index |-> t0_index, t1_index |-> t1_index,
                        new_t0 |-> new_t0, new_t1 |-> new_t1,
                        old_indices |-> sim.atmospheric_pressure_indices, old |-> old,
                        atmospheric_pressure_t |-> InterpolationCoefficient(sim.t, new_t0, new_t1)])
        f1 == IF IntervalChanged(new_t0, old_t0)
              THEN Reload(f0, "atmospheric_pressure_current_arr",
                          <<sim.atmospheric_pressure, t0_index>>)
              ELSE f0
        f2 == IF IntervalChanged(new_t1, old_t1)
              THEN Reload(f1, "atmospheric_pressure_next_arr",
                          <<sim.atmospheric_pressure, t1_index>>)
              ELSE f1
    IN  [f2 EXCEPT !.sim.atmospheric_pressure_timestamps = <<new_t0, new_t1>>,
                   !.sim.atmospheric_pressure_indices = <<t0_index, t1_index>>]

\* The value update_atmospheric_pressure returns.
atmospheric_pressure_t(sim) ==
    LET axis == AtmosphericPressureObjects[sim.atmospheric_pressure]
    IN  InterpolationCoefficient(sim.t, At(axis, T0Index(axis, sim.t)),
                                 At(axis, T1Index(axis, sim.t)))

----------------------------------------------------------------------------
(* Construction (Simulator.__init__, KP07.__init__) *)

\* boundary_conditions.isSponge(): some edge is a sponge.
isSponge(boundary_conditions) ==
    \E edge \in {"north", "east", "south", "west"} : boundary_conditions[edge] = "sponge"

\* ghost_cells_x = 2; ghost_cells_y = 2
ghost_cells_x == 2
ghost_cells_y == 2

\* "Extend the computational domain if the boundary conditions require it":
\* nx + spongeCells[1] + spongeCells[3] - 2*ghost_cells_x and
\* ny + spongeCells[0] + spongeCells[2] - 2*ghost_cells_y; (ny, nx) here.
ExtendedDomain(domain, boundary_conditions) ==
    IF isSponge(boundary_conditions)
    THEN <<domain[1] + At(boundary_conditions.spongeCells, 0)
                     + At(boundary_conditions.spongeCells, 2) - 2 * ghost_cells_y,
           domain[2] + At(boundary_conditions.spongeCells, 1)
                     + At(boundary_conditions.spongeCells, 3) - 2 * ghost_cells_x>>
    ELSE domain

\* rk_order = np.int32(use_rk2 + 1)
RkOrder(use_rk2) == IF use_rk2 THEN 2 ELSE 1

\* eta0 = np.maximum(eta0, -Hm): arrays that lie below the bed somewhere are lifted
\* to it; fields a sub-step produced (positivity-preserving) are not below it.
AdjustForDryStates(eta0) ==
    IF eta0.gen = 0 /\ eta0.data \in BelowBed THEN [eta0 EXCEPT !.data = Clamped[@]]
    ELSE eta0

\* Simulator.__init__: clock, iteration counter, forcing snapshots of the bracket
\* at the initial time, empty timestamp caches; with the data KP07.__init__ adds:
\* the boundary conditions and both buffer sets uploaded from the same initial
\* arrays (SWEDataArakawaA).
SimulatorInit(cls, domain, dt, t, use_rk2, wind, atmospheric_pressure, boundary_conditions, write_netcdf, eta0) ==
    [ cls |-> cls,
      ny |-> domain[1],
      nx |-> domain[2],
      boundary_conditions |-> boundary_conditions,
      rk_order |-> RkOrder(use_rk2),
      dt |-> dt,
      use_rk2 |-> use_rk2,
      t |-> t,
      num_iterations |-> 0,
      wind_stress |-> wind,
      wind_stress_timestamps |-> None,
      wind_stress_current_arr |-> <<wind, T0Index(WindStressObjects[wind], t)>>,
      wind_stress_next_arr |-> <<wind, T1Index(WindStressObjects[wind], t)>>,
      wind_stress_indices |-> <<T0Index(WindStressObjects[wind], t),
                                T1Index(WindStressObjects[wind], t)>>,
      atmospheric_pressure |-> atmospheric_pressure,
      atmospheric_pressure_timestamps |-> None,
      atmospheric_pressure_current_arr |->
          <<atmospheric_pressure, T0Index(AtmosphericPressureObjects[atmospheric_pressure], t)>>,
      atmospheric_pressure_next_arr |->
          <<atmospheric_pressure, T1Index(AtmosphericPressureObjects[atmospheric_pressure], t)>>,
      atmospheric_pressure_indices |->
          <<T0Index(AtmosphericPressureObjects[atmospheric_pressure], t),
            T1Index(AtmosphericPressureObjects[atmospheric_pressure], t)>>,
      write_netcdf |-> write_netcdf,
      gpu_data |-> [h0 |-> "A", h1 |-> "B"],
      gpu_stream |-> {},
      sim_writer_exits |-> 0,
      released |-> FALSE,
      dev |-> [b \in {"A", "B"} |-> eta0] ]

\* Simulator._set_interior_domain_from_sponge_cells:
\* "if (self.boundary_conditions.isSponge()): assert(False), 'This function is deprecated ...'"
SetInteriorDomainFromSpongeCells(fr) ==
    IF fr.raised THEN fr
    ELSE IF isSponge(fr.sim.boundary_conditions)
    THEN Raise(fr, [k |-> "failed", op |-> "_set_interior_domain_from_sponge_cells"])
    ELSE fr

\* KP07.__init__ as a call: the domain extended by the sponge cells, the base
\* constructor, _set_interior_domain_from_sponge_cells, then
\* self.update_wind_stress(self.kp07_kernel) and the buffer sets from the adjusted
\* initial arrays.  eta0 is the content of the arrays given.
KP07Init(domain, dt, t, use_rk2, wind, atmospheric_pressure, boundary_conditions, write_netcdf, eta0) ==
    LET base == SimulatorInit("KP07", ExtendedDomain(domain, boundary_conditions), dt, t,
                              use_rk2, wind, atmospheric_pressure, boundary_conditions,
                              write_netcdf, AdjustForDryStates(eta0))
        f1 == SetInteriorDomainFromSpongeCells(Frame(base))
    IN  IF f1.raised THEN f1 ELSE update_wind_stress(f1)

\* A simulator built with the default boundary conditions from the host arrays eta0.
\* Another simulator class is known here only as a subclass of Simulator.
NewSimulator(cls, domain, dt, t, use_rk2, wind, atmospheric_pressure, write_netcdf, eta0) ==
    IF cls = "KP07"
    THEN KP07Init(domain, dt, t, use_rk2, wind, atmospheric_pressure,
                  DefaultBoundaryConditions, write_netcdf, HostArrays(eta0)).sim
    ELSE SimulatorInit(cls, domain, dt, t, use_rk2, wind, atmospheric_pressure,
                       DefaultBoundaryConditions, write_netcdf, HostArrays(eta0))

\* What SimNetCDFReader gives back of the file a simulator's writer wrote: the
\* attributes of the simulator and the last time step written, ghost cells included.
SimNetCDFReader(sim, timestep) ==
    [ simulator_short |-> sim.cls,
      ny |-> sim.ny,
      nx |-> sim.nx,
      dt |-> sim.dt,
      time_integrator |-> sim.rk_order,
      boundary_conditions |-> sim.boundary_conditions,
      time0 |-> timestep.t,
      eta0 |-> timestep.fields ]

\* Faulty variant: the clock left at the constructor's default, t = 0.0.
fromfilenameClockDefault(cls, sim_reader, cont_write_netcdf) ==
    IF sim_reader.simulator_short # cls
    THEN Raise(Frame(None), [k |-> "failed", op |-> "fromfilename"])
    ELSE KP07Init(<<sim_reader.ny, sim_reader.nx>>, sim_reader.dt, 0,
                  sim_reader.time_integrator = 2, DefaultWindStress,
                  DefaultAtmosphericPressure, sim_reader.boundary_conditions,
                  cont_write_netcdf, sim_reader.eta0)

\* KP07.fromfilename: the simulator name checked, the parameters read, RK2 iff
\* time_integrator is 2, a default wind, the clock and the fields of the last time
\* step passed to the constructor.
fromfilename(cls, sim_reader, cont_write_netcdf) ==
    IF sim_reader.simulator_short # cls
    THEN Raise(Frame(None), [k |-> "failed", op |-> "fromfilename"])
    ELSE KP07Init(<<sim_reader.ny, sim_reader.nx>>, sim_reader.dt, sim_reader.time0,
                  sim_reader.time_integrator = 2, DefaultWindStress,
                  DefaultAtmosphericPressure, sim_reader.boundary_conditions,
                  cont_write_netcdf, sim_reader.eta0)

----------------------------------------------------------------------------
(* KP07.step *)

\* self.swe_2D.prepare("iifffffffffiPiPiPiPiPiPiPiPiiiiiPPPPf")
Swe2DFormat ==
    <<"i", "i">> \o <<"f", "f", "f", "f", "f", "f", "f", "f", "f">> \o <<"i">>
    \o <<"P", "i", "P", "i", "P", "i">> \o <<"P", "i", "P", "i", "P", "i">>
    \o <<"P", "i", "P", "i">> \o <<"i", "i", "i", "i">>
    \o <<"P", "P", "P", "P">> \o <<"f">>

\* The arguments every call passes up to the boundary flags: nx, ny; dx, dy, local_dt,
\* g, theta, f, coriolis_beta, y_zero_reference_cell, r; the stage; three read and three
\* write buffer/pitch pairs; Bi and Bm with their pitches; north, east, south, west.
KernelArgsHead ==
    <<"i", "i">> \o <<"f", "f", "f", "f", "f", "f", "f", "f", "f">> \o <<"i">>
    \o <<"P", "i", "P", "i", "P", "i">> \o <<"P", "i", "P", "i", "P", "i">>
    \o <<"P", "i", "P", "i">> \o <<"i", "i", "i", "i">>

\* The RK2 calls end with the four wind-stress arrays and wind_stress_t.
RK2Args == KernelArgsHead \o <<"P", "P", "P", "P">> \o <<"f">>

\* The Euler call ends with wind_stress_t alone.
EulerArgs == KernelArgsHead \o <<"f">>

\* n = int(t_end / self.dt + 1)
NumSubSteps(t_end, dt) == IntTrunc(t_end + dt, dt)

\* local_dt = np.float32(min(self.dt, t_end - i*self.dt))
LocalDt(dt, t_end, i) == Min(dt, t_end - i * dt)

\* What the kernel leaves in its write buffers: stage 0 of the Euler path is a whole
\* sub-step, stage 0 of RK2 the predictor, stage 1 of RK2 the completed sub-step.
KernelResult(use_rk2, stage, rd) ==
    IF use_rk2 /\ stage = 0
    THEN Content(rd.data, rd.gen, TRUE, FALSE)
    ELSE Content(rd.data, rd.gen + 1, FALSE, FALSE)

\* self.bc_kernel.boundaryCondition(self.gpu_stream, h, hu, hv) on buffer set h.
boundaryCondition(fr, h) ==
    IF fr.raised THEN fr
    ELSE LET b == fr.sim.gpu_data[h]
         IN  Emit(Enqueue([fr EXCEPT !.sim.dev[b].bc = TRUE], "work"),
                  [k |-> "boundaryCondition", set |-> h, buf |-> b])

\* self.swe_2D.prepared_async_call(..., *args): the arguments are packed with the
\* prepared format, which raises when they do not match it; a launch the device
\* rejects raises too; otherwise the kernel is enqueued, reading set rd and writing
\* set wr.
prepared_async_call(fr, args, stage, rd, wr, local_dt, frac) ==
    IF fr.raised THEN fr
    ELSE IF args # Swe2DFormat \/ fr.fail_after = 0
    THEN Raise(fr, [k |-> "failed", op |-> "swe_2D", stage |-> stage, args |-> args])
    ELSE LET src == fr.sim.gpu_data[rd]
             dst == fr.sim.gpu_data[wr]
         IN  Emit(Enqueue(Accepted([fr EXCEPT !.sim.dev[dst] =
                                  KernelResult(fr.sim.use_rk2, stage, fr.sim.dev[src])]),
                          "work"),
                  [k |-> "swe_2D", stage |-> stage, rd |-> src, wr |-> dst, args |-> args,
                   in_flight |-> fr.sim.gpu_stream,
                   input |-> fr.sim.dev[src], local_dt |-> local_dt,
                   wind_stress_t |-> frac, nargs |-> Len(args), t |-> fr.sim.t,
                   wind_stress_current_arr |-> fr.sim.wind_stress_current_arr,
                   wind_stress_next_arr |-> fr.sim.wind_stress_next_arr])

\* self.gpu_data.swap(): the two buffer sets exchange their names, no data moves.
swap(fr) ==
    IF fr.raised THEN fr
    ELSE Emit([fr EXCEPT !.sim.gpu_data = [h0 |-> fr.sim.gpu_data.h1,
                                           h1 |-> fr.sim.gpu_data.h0]],
              [k |-> "swap"])

\* Faulty variant: the last boundary-condition pass of the RK2 branch on set 1 again.
RK2SubStepBcOnScratch(fr, local_dt, frac) ==
    LET f1 == prepared_async_call(fr, RK2Args, 0, "h0", "h1", local_dt, frac)
        f2 == boundaryCondition(f1, "h1")
        f3 == prepared_async_call(f2, RK2Args, 1, "h1", "h0", local_dt, frac)
    IN  boundaryCondition(f3, "h1")

\* Faulty variant: stage 1 reads set 0, the set it writes.
RK2SubStepStage1InPlace(fr, local_dt, frac) ==
    LET f1 == prepared_async_call(fr, RK2Args, 0, "h0", "h1", local_dt, frac)
        f2 == boundaryCondition(f1, "h1")
        f3 == prepared_async_call(f2, RK2Args, 1, "h0", "h0", local_dt, frac)
    IN  boundaryCondition(f3, "h0")

\* Faulty variant: stage 1 gets the fraction of the clock time the sub-step ends at.
RK2SubStepFractionPerStage(fr, local_dt, frac) ==
    LET f1 == prepared_async_call(fr, RK2Args, 0, "h0", "h1", local_dt, frac)
        f2 == boundaryCondition(f1, "h1")
        f3 == prepared_async_call(f2, RK2Args, 1, "h1", "h0", local_dt,
                                  wind_stress_t([fr.sim EXCEPT !.t = @ + local_dt]))
    IN  boundaryCondition(f3, "h0")

\* The RK2 branch: stage 0 from set 0 into set 1, boundary conditions on set 1,
\* stage 1 from set 1 into set 0, boundary conditions on set 0.
RK2SubStep(fr, local_dt, frac) ==
    LET f1 == prepared_async_call(fr, RK2Args, 0, "h0", "h1", local_dt, frac)
        f2 == boundaryCondition(f1, "h1")
        f3 == prepared_async_call(f2, RK2Args, 1, "h1", "h0", local_dt, frac)
    IN  boundaryCondition(f3, "h0")

\* The Euler branch: one call from set 0 into set 1, swap, boundary conditions on set 0.
EulerSubStep(fr, local_dt, frac) ==
    LET f1 == prepared_async_call(fr, EulerArgs, 0, "h0", "h1", local_dt, frac)
        f2 == swap(f1)
    IN  boundaryCondition(f2, "h0")

SubStep(fr, local_dt, frac) ==
    IF fr.sim.use_rk2 THEN RK2SubStep(fr, local_dt, frac)
    ELSE EulerSubStep(fr, local_dt, frac)

\* Faulty variant: "self.t = np.float64(local_dt)", the clock assigned instead of advanced.
AdvanceAssign(fr, local_dt) ==
    IF fr.raised THEN fr
    ELSE [fr EXCEPT !.sim.t = local_dt, !.sim.num_iterations = @ + 1]

\* Faulty variant: the iteration counter incremented once per kernel stage.
AdvancePerStage(fr, local_dt) ==
    IF fr.raised THEN fr
    ELSE [fr EXCEPT !.sim.t = @ + local_dt,
                    !.sim.num_iterations = @ + (IF fr.sim.use_rk2 THEN 2 ELSE 1)]

\* self.t += np.float64(local_dt); self.num_iterations += 1
Advance(fr, local_dt) ==
    IF fr.raised THEN fr
    ELSE [fr EXCEPT !.sim.t = @ + local_dt, !.sim.num_iterations = @ + 1]

\* Faulty variant: "if (local_dt < 0.0): break".
LoopBreakStrict(local_dt) == local_dt < 0

\* "if (local_dt <= 0.0): break"
LoopBreak(local_dt) == local_dt <= 0

\* Faulty variant: the wind stress refreshed at the end of the iteration, after the
\* sub-step.
RECURSIVE StepLoopRefreshLast(_, _, _, _)
StepLoopRefreshLast(fr, t_end, i, n) ==
    IF i >= n \/ fr.raised THEN fr
    ELSE LET local_dt == LocalDt(fr.sim.dt, t_end, i)
             frac == wind_stress_t(fr.sim)
         IN  IF LoopBreak(local_dt) THEN update_wind_stress(fr)
             ELSE StepLoopRefreshLast(
                      update_wind_stress(Advance(SubStep(fr, local_dt, frac), local_dt)),
                      t_end, i + 1, n)

\* for i in range(0, n): ...
RECURSIVE StepLoop(_, _, _, _)
StepLoop(fr, t_end, i, n) ==
    IF i >= n \/ fr.raised THEN fr
    ELSE LET local_dt == LocalDt(fr.sim.dt, t_end, i)
             f1 == update_wind_stress(fr)
             frac == wind_stress_t(fr.sim)
         IN  IF LoopBreak(local_dt) THEN f1
             ELSE StepLoop(Advance(SubStep(f1, local_dt, frac), local_dt), t_end, i + 1, n)

\* "if self.t == 0:" boundary conditions on set 0 before the loop.
InitialBoundaryCondition(fr) ==
    IF fr.sim.t = 0 THEN boundaryCondition(fr, "h0") ELSE fr

\* Faulty variant: the snapshot written whether or not the writer is enabled.
WriteTimestepAlways(fr) ==
    IF fr.raised THEN fr
    ELSE Emit(fr, [k |-> "writeTimestep", t |-> fr.sim.t,
                   fields |-> fr.sim.dev[fr.sim.gpu_data.h0]])

\* Faulty variant: the snapshot written in a "finally:", also when the loop raised.
WriteTimestepFinally(fr) ==
    IF fr.sim.write_netcdf
    THEN Emit(fr, [k |-> "writeTimestep", t |-> fr.sim.t,
                   fields |-> fr.sim.dev[fr.sim.gpu_data.h0]])
    ELSE fr

\* "if self.write_netcdf: self.sim_writer.writeTimestep(self)": the writer stores the
\* clock and the fields it downloads from the simulator, which drains the stream.
WriteTimestep(fr) ==
    IF fr.raised THEN fr
    ELSE IF fr.sim.write_netcdf
    THEN Emit([fr EXCEPT !.sim.gpu_stream = {}],
              [k |-> "writeTimestep", t |-> fr.sim.t,
               fields |-> fr.sim.dev[fr.sim.gpu_data.h0]])
    ELSE fr

step(fr, t_end) ==
    WriteTimestep(StepLoop(InitialBoundaryCondition(fr), t_end, 0,
                           NumSubSteps(t_end, fr.sim.dt)))

----------------------------------------------------------------------------
(* State accessors and mutators (Simulator.py) *)

\* self.gpu_data.download(self.gpu_stream): the fields of set 0.
download(sim) == sim.dev[sim.gpu_data.h0]

\* self.gpu_data.downloadPrevTimestep(self.gpu_stream): the fields of set 1.
downloadPrevTimestep(sim) == sim.dev[sim.gpu_data.h1]

\* assert type(otherSim) is type(self)
SameClass(sim, otherSim) == otherSim.cls = sim.cls

\* The domain check on the number of rows only.
SameDomainNyOnly(sim, otherSim) == sim.ny = otherSim.ny

\* assert (self.ny, self.nx) == (otherSim.ny, otherSim.nx)
SameDomain(sim, otherSim) == <<sim.ny, sim.nx>> = <<otherSim.ny, otherSim.nx>>

\* <dst>.copyBuffer(self.gpu_stream, <src>) for the three fields of one buffer set.
copyBuffer(fr, h, otherSim) ==
    LET b == fr.sim.gpu_data[h]
        o == otherSim.gpu_data[h]
    IN  Emit(Enqueue([fr EXCEPT !.sim.dev[b] = otherSim.dev[o]], "work"),
             [k |-> "copyBuffer", set |-> h, buf |-> b, from |-> o,
              in_flight |-> fr.sim.gpu_stream, other_in_flight |-> otherSim.gpu_stream])

\* Faulty variant: the clock and the iteration counter copied with the state.
copyStateWithClock(fr, otherSim) ==
    IF ~SameClass(fr.sim, otherSim) THEN [fr EXCEPT !.raised = TRUE]
    ELSE IF ~SameDomain(fr.sim, otherSim) THEN [fr EXCEPT !.raised = TRUE]
    ELSE LET f1 == copyBuffer(fr, "h0", otherSim)
             f2 == copyBuffer(f1, "h1", otherSim)
         IN  [f2 EXCEPT !.sim.wind_stress = otherSim.wind_stress,
                        !.sim.t = otherSim.t,
                        !.sim.num_iterations = otherSim.num_iterations]

\* Faulty variant: only set 0 is copied.
copyStateCurrentSetOnly(fr, otherSim) ==
    IF ~SameClass(fr.sim, otherSim) THEN [fr EXCEPT !.raised = TRUE]
    ELSE IF ~SameDomain(fr.sim, otherSim) THEN [fr EXCEPT !.raised = TRUE]
    ELSE LET f1 == copyBuffer(fr, "h0", otherSim)
         IN  [f1 EXCEPT !.sim.wind_stress = otherSim.wind_stress]

\* Simulator.copyState: a failed assertion leaves the call before anything is copied.
copyState(fr, otherSim) ==
    IF ~SameClass(fr.sim, otherSim) THEN [fr EXCEPT !.raised = TRUE]
    ELSE IF ~SameDomain(fr.sim, otherSim) THEN [fr EXCEPT !.raised = TRUE]
    ELSE LET f1 == copyBuffer(fr, "h0", otherSim)
             f2 == copyBuffer(f1, "h1", otherSim)
         IN  [f2 EXCEPT !.sim.wind_stress = otherSim.wind_stress]

\* <dst>.upload(self.gpu_stream, arrays) for the three fields of one buffer set.
uploadBuffer(fr, h, data) ==
    LET b == fr.sim.gpu_data[h]
    IN  Emit(Enqueue([fr EXCEPT !.sim.dev[b] = Content(data, 0, FALSE, FALSE)], "work"),
             [k |-> "upload", arr |-> h, field |-> data])

\* Faulty variant: the second triple is ignored, both sets get the first.
uploadFirstTripleOnly(fr, data0, data1) ==
    LET f1 == uploadBuffer(fr, "h0", data0)
        f2 == uploadBuffer(f1, "h1", data0)
        f3 == Emit(f2, [k |-> "update_bc_values", t |-> fr.sim.t])
    IN  boundaryCondition(f3, "h0")

\* Simulator.upload: set 0 from the first triple, set 1 from the second triple when
\* given and from the first otherwise, then boundary conditions on set 0.
upload(fr, data0, data1) ==
    LET f1 == uploadBuffer(fr, "h0", data0)
        f2 == uploadBuffer(f1, "h1", IF data1 = None THEN data0 ELSE data1[1])
        f3 == Emit(f2, [k |-> "update_bc_values", t |-> fr.sim.t])
    IN  boundaryCondition(f3, "h0")

\* Faulty variant: the writer closed, write_netcdf left as it was.
closeNetCDFKeepFlag(fr) ==
    IF fr.sim.write_netcdf
    THEN Emit([fr EXCEPT !.sim.sim_writer_exits = @ + 1], [k |-> "sim_writer.__exit__"])
    ELSE fr

\* Simulator.closeNetCDF: "if self.write_netcdf: self.sim_writer.__exit__(0,0,0);
\* self.write_netcdf = False".  sim_writer_exits counts the calls of __exit__.
closeNetCDF(fr) ==
    IF fr.sim.write_netcdf
    THEN Emit([fr EXCEPT !.sim.sim_writer_exits = @ + 1, !.sim.write_netcdf = FALSE],
              [k |-> "sim_writer.__exit__"])
    ELSE fr

\* KP07.cleanUp (also what __del__ calls): closeNetCDF, then the device buffers and
\* the context are given up.
cleanUp(fr) ==
    Emit([closeNetCDF(fr) EXCEPT !.sim.released = TRUE], [k |-> "release"])

----------------------------------------------------------------------------
(* The state machine *)

\* Simulator 1 is a KP07 built with any of the inputs above and takes every call.
\* Simulator 2 is another KP07 of the same domain, built with the constructor's
\* defaults (t = 0, RK2, no writer); it is stepped by whole base steps and is an
\* otherSim of copyState.
Init ==
    /\ \E use_rk2 \in BOOLEAN, dt \in DtSet, t \in InitTimes, write_netcdf \in BOOLEAN,
          wind \in InitWinds :
          sims = [s \in Sims |->
                    IF s = 1
                    THEN NewSimulator("KP07", DomainA, dt, t, use_rk2, wind, 1,
                                      write_netcdf, InitialData[1])
                    ELSE NewSimulator("KP07", DomainA, dt, 0, TRUE, 1, 1,
                                      FALSE, InitialData[2])]
    /\ log = <<>>
    /\ last = [op |-> "__init__"]
    /\ stepped = {}

\* Freshly built simulators that copyState must refuse: a KP07 of another domain
\* and a simulator of another class.
ForeignSimulators ==
    { NewSimulator("KP07", DomainB, 2, 0, TRUE, 1, 1, FALSE, InitialData[2]),
      NewSimulator("CDKLM16", DomainA, 2, 0, TRUE, 1, 1, FALSE, InitialData[2]) }

\* sim.step(t_end)
Step(s, t_end) ==
    /\ sims[s].cls = "KP07"
    /\ sims[s].t + Max(t_end, 0) <= MaxT
    /\ \E fr \in {step(Frame(sims[s]), t_end)} :
           /\ sims' = [sims EXCEPT ![s] = fr.sim]
           /\ log' = fr.log
           /\ last' = [op |-> "step", sim |-> s, t_end |-> t_end, first |-> s \notin stepped,
                       raised |-> fr.raised, ret |-> fr.sim.t]
    /\ stepped' = stepped \cup {s}

\* sim.step(t_end) on a device that rejects its (fail_after+1)-th operation of the call.
StepFailing(s, t_end, fail_after) ==
    /\ sims[s].cls = "KP07"
    /\ sims[s].t + Max(t_end, 0) <= MaxT
    /\ \E fr \in {step(FrameFailing(sims[s], fail_after), t_end)} :
           /\ sims' = [sims EXCEPT ![s] = fr.sim]
           /\ log' = fr.log
           /\ last' = [op |-> "step", sim |-> s, t_end |-> t_end, first |-> s \notin stepped,
                       raised |-> fr.raised, ret |-> fr.sim.t, fail_after |-> fail_after]
    /\ stepped' = stepped \cup {s}

\* sim.update_wind_stress(sim.kp07_kernel)
UpdateWindStress(s) ==
    /\ sims[s].cls = "KP07"
    /\ \E fr \in {update_wind_stress(Frame(sims[s]))} :
           /\ sims' = [sims EXCEPT ![s] = fr.sim]
           /\ log' = fr.log
           /\ last' = [op |-> "update_wind_stress", sim |-> s, raised |-> FALSE,
                       ret |-> wind_stress_t(sims[s])]
    /\ UNCHANGED stepped

\* sim.update_atmospheric_pressure(sim.kp07_kernel)
UpdateAtmosphericPressure(s) ==
    /\ sims[s].cls = "KP07"
    /\ \E fr \in {update_atmospheric_pressure(Frame(sims[s]))} :
           /\ sims' = [sims EXCEPT ![s] = fr.sim]
           /\ log' = fr.log
           /\ last' = [op |-> "update_atmospheric_pressure", sim |-> s, raised |-> FALSE,
                       ret |-> atmospheric_pressure_t(sims[s])]
    /\ UNCHANGED stepped

\* sim.upload(eta0, hu0, hv0[, eta1, hu1, hv1])
Upload(s, data0, data1) ==
    /\ sims[s].cls = "KP07"
    /\ \E fr \in {upload(Frame(sims[s]), data0, data1)} :
           /\ sims' = [sims EXCEPT ![s] = fr.sim]
           /\ log' = fr.log
           /\ last' = [op |-> "upload", sim |-> s, data0 |-> data0, data1 |-> data1,
                       raised |-> fr.raised]
    /\ UNCHANGED stepped

\* sim.copyState(otherSim)
CopyState(s, otherSim) ==
    /\ \E fr \in {copyState(Frame(sims[s]), otherSim)} :
           /\ sims' = [sims EXCEPT ![s] = fr.sim]
           /\ log' = fr.log
           /\ last' = [op |-> "copyState", sim |-> s, otherSim |-> otherSim,
                       raised |-> fr.raised]
    /\ UNCHANGED stepped

\* sims[s] = KP07(..., boundary_conditions=...): a new simulator in the place of s;
\* when the constructor raises, the name keeps the simulator it had.
Construct(s, boundary_conditions, write_netcdf) ==
    /\ \E fr \in {KP07Init(DomainB, 2, 0, TRUE, 1, 1, boundary_conditions, write_netcdf,
                            HostArrays(InitialData[s]))} :
           /\ sims' = IF fr.raised THEN sims ELSE [sims EXCEPT ![s] = fr.sim]
           /\ log' = fr.log
           /\ last' = [op |-> "KP07", sim |-> s, raised |-> fr.raised, domain |-> DomainB,
                       boundary_conditions |-> boundary_conditions,
                       ret |-> <<fr.sim.ny, fr.sim.nx>>]
           /\ stepped' = IF fr.raised THEN stepped ELSE stepped \ {s}

\* sims[s] = KP07.fromfilename(gpu_ctx, <the file src has just written a time step to>)
FromFilename(s, src, cont_write_netcdf) ==
    /\ last.op = "step" /\ last.sim = src /\ ~last.raised
    /\ log # <<>> /\ log[Len(log)].k = "writeTimestep"
    /\ \E sim_reader \in {SimNetCDFReader(sims[src], log[Len(log)])} :
       \E fr \in {fromfilename("KP07", sim_reader, cont_write_netcdf)} :
           /\ sims' = IF fr.raised THEN sims ELSE [sims EXCEPT ![s] = fr.sim]
           /\ log' = fr.log
           /\ last' = [op |-> "fromfilename", sim |-> s, raised |-> fr.raised,
                       sim_reader |-> sim_reader]
           /\ stepped' = IF fr.raised THEN stepped ELSE stepped \ {s}

\* sim.closeNetCDF()
CloseNetCDF(s) ==
    /\ \E fr \in {closeNetCDF(Frame(sims[s]))} :
           /\ sims' = [sims EXCEPT ![s] = fr.sim]
           /\ log' = fr.log
           /\ last' = [op |-> "closeNetCDF", sim |-> s, raised |-> FALSE,
                       was_open |-> sims[s].write_netcdf]
    /\ UNCHANGED stepped

\* sim.cleanUp(), or the finalizer of the object
CleanUp(s) ==
    /\ \E fr \in {cleanUp(Frame(sims[s]))} :
           /\ sims' = [sims EXCEPT ![s] = fr.sim]
           /\ log' = fr.log
           /\ last' = [op |-> "cleanUp", sim |-> s, raised |-> FALSE,
                       was_open |-> sims[s].write_netcdf]
    /\ UNCHANGED stepped

\* sim.download(): the copy to the host returns when the work enqueued on the stream
\* has completed.
Download(s) ==
    /\ sims' = [sims EXCEPT ![s].gpu_stream = {}]
    /\ log' = <<>>
    /\ last' = [op |-> "download", sim |-> s, raised |-> FALSE, ret |-> download(sims[s])]
    /\ UNCHANGED stepped

\* sim.downloadPrevTimestep()
DownloadPrevTimestep(s) ==
    /\ sims' = [sims EXCEPT ![s].gpu_stream = {}]
    /\ log' = <<>>
    /\ last' = [op |-> "downloadPrevTimestep", sim |-> s, raised |-> FALSE,
                ret |-> downloadPrevTimestep(sims[s])]
    /\ UNCHANGED stepped

\* The calls on the time-stepping engine.
Next ==
    \/ \E t_end \in TEnds : Step(1, t_end)
    \/ Step(2, sims[2].dt)
    \/ UpdateWindStress(1)
    \/ \E data0 \in UploadData, data1 \in SecondUploadData : Upload(1, data0, data1)
    \/ \E otherSim \in {sims[2]} \cup ForeignSimulators : CopyState(1, otherSim)
    \/ Download(1)

Spec == Init /\ [][Next]_vars

\* Arrays given to upload() in the life cycle below, one of them below the bed.
LifecycleUploadData == UploadData \cup BelowBed

\* One simulator's life: built with each boundary-condition configuration, given a new
\* state, stepped with a writer, and built again from the file it wrote.
NextLifecycle ==
    \/ \E t_end \in TEnds : Step(1, t_end)
    \/ \E data0 \in LifecycleUploadData : Upload(1, data0, None)
    \/ \E i \in 1 .. Len(BoundaryConditionsObjects), write_netcdf \in BOOLEAN :
          Construct(1, BoundaryConditionsObjects[i], write_netcdf)
    \/ \E cont_write_netcdf \in BOOLEAN : FromFilename(1, 1, cont_write_netcdf)

SpecLifecycle == Init /\ [][NextLifecycle]_vars

\* Stepping on a device that may reject a kernel launch or a forcing upload.
NextFaults ==
    \/ \E t_end \in TEnds, fail_after \in FailAfter : StepFailing(1, t_end, fail_after)
    \/ UpdateWindStress(1)

SpecFaults == Init /\ [][NextFaults]_vars

\* A simulator with or without a writer, stepped, its file closed, cleaned up, in any
\* order.  A step on released device buffers is undefined: it runs or it raises.
NextWriter ==
    \/ \E t_end \in TEnds, fail_after \in AfterRelease :
          /\ sims[1].released \/ fail_after = -1
          /\ StepFailing(1, t_end, fail_after)
    \/ CloseNetCDF(1)
    \/ CleanUp(1)

SpecWriter == Init /\ [][NextWriter]_vars

\* Stepping two simulators and reading and replacing the state of the first.
NextAccessors ==
    \/ \E t_end \in TEnds : Step(1, t_end)
    \/ Step(2, sims[2].dt)
    \/ \E data0 \in UploadData : Upload(1, data0, None)
    \/ CopyState(1, sims[2])
    \/ Download(1)
    \/ DownloadPrevTimestep(1)

SpecAccessors == Init /\ [][NextAccessors]_vars

\* The calls that move the clock and refresh the forcing interpolators, on one simulator.
NextForcing ==
    \/ \E t_end \in TEnds : Step(1, t_end)
    \/ UpdateWindStress(1)
    \/ UpdateAtmosphericPressure(1)

SpecForcing == Init /\ [][NextForcing]_vars

----------------------------------------------------------------------------
(* Reading the record of the last call *)

Kernels(l) == SelectSeq(l, LAMBDA e : e.k = "swe_2D")

BoundaryPasses(l) == SelectSeq(l, LAMBDA e : e.k = "boundaryCondition")

Snapshots(l) == SelectSeq(l, LAMBDA e : e.k = "writeTimestep")

WindQueries(l) == SelectSeq(l, LAMBDA e : e.k = "update_wind_stress")

ForcingQueries(l) ==
    SelectSeq(l, LAMBDA e : e.k \in {"update_wind_stress", "update_atmospheric_pressure"})

\* The kernel calls that complete a sub-step: stage 1 under RK2, the only stage under Euler.
Completing(l, sim) ==
    SelectSeq(Kernels(l), LAMBDA e : e.stage = (IF sim.use_rk2 THEN 1 ELSE 0))

RECURSIVE SumLocalDt(_)
SumLocalDt(l) == IF l = <<>> THEN 0 ELSE Head(l).local_dt + SumLocalDt(Tail(l))

\* The position of the first kernel call in l, Len(l) + 1 if there is none.
FirstKernel(l) ==
    IF \E i \in 1 .. Len(l) : l[i].k = "swe_2D"
    THEN CHOOSE i \in 1 .. Len(l) : l[i].k = "swe_2D" /\ \A j \in 1 .. i - 1 : l[j].k # "swe_2D"
    ELSE Len(l) + 1

\* The operations of a call that raised.
Failures(l) == SelectSeq(l, LAMBDA e : e.k = "failed")

\* The calls of swe_2D a step call made, the ones that raised included.
Launches(l) ==
    SelectSeq(l, LAMBDA e : e.k = "swe_2D" \/ (e.k = "failed" /\ e.op = "swe_2D"))

\* The kernel launches, boundary-condition passes and role swaps of a call, in order.
StageOps(l) == SelectSeq(l, LAMBDA e : e.k \in {"swe_2D", "boundaryCondition", "swap"})

StrictlyIncreasing(axis) == \A i \in 1 .. Len(axis) - 1 : axis[i] < axis[i + 1]

\* The time axis a forcing query was made on.
AxisOf(e) ==
    IF e.k = "update_wind_stress" THEN WindStressObjects[e.series]
    ELSE AtmosphericPressureObjects[e.series]

\* The interpolation coefficient a forcing query returned.
FractionOf(e) ==
    IF e.k = "update_wind_stress" THEN e.wind_stress_t ELSE e.atmospheric_pressure_t

\* Whether the forcing query at position i of l uploaded the snapshot buffer arr:
\* an upload of arr follows it before the next query.
Uploaded(l, i, arr) ==
    \E j \in i + 1 .. Len(l) :
        /\ l[j].k = "upload" /\ l[j].arr = arr
        /\ \A m \in i + 1 .. j - 1 :
               l[m].k \notin {"update_wind_stress", "update_atmospheric_pressure"}

----------------------------------------------------------------------------
(* Properties *)

\* C1: a step call never moves the clock backwards, and a call with t_end >= 0 that
\* returns gives back the new clock time t' with t' - t <= t_end + dt.
C1_StepAdvanceBounded ==
    [][ last'.op = "step" =>
          LET s == last'.sim
          IN  /\ sims'[s].t >= sims[s].t
              /\ (~last'.raised /\ last'.t_end >= 0) =>
                    /\ last'.ret = sims'[s].t
                    /\ sims'[s].t - sims[s].t <= last'.t_end + sims[s].dt ]_vars

\* C1 witness: an RK2 step(3) with dt = 2 has run two sub-steps and returned.
C1_Witness ==
    /\ last.op = "step" /\ last.sim = 1 /\ ~last.raised /\ last.t_end = 3
    /\ Len(Kernels(log)) = 4
    /\ sims[1].num_iterations >= 2

\* C2: over one step call the iteration counter grows by the number of sub-steps that
\* were run (iterations that broke off on local_dt <= 0 do not count, an RK2 sub-step
\* of two kernel stages counts once), and the clock grows by the local_dt of exactly
\* those sub-steps.
C2_IterationsCountSubSteps ==
    [][ last'.op = "step" =>
          LET s == last'.sim
              done == Completing(log', sims[s])
          IN  /\ sims'[s].num_iterations - sims[s].num_iterations = Len(done)
              /\ sims'[s].t - sims[s].t = SumLocalDt(done)
              /\ \A i \in 1 .. Len(done) : done[i].local_dt > 0
              /\ sims[s].use_rk2 => Len(Kernels(log')) = 2 * Len(done) ]_vars

\* C2 witness: an RK2 step(2) with dt = 2: one sub-step of two stages, then the
\* second iteration breaks off on local_dt = 0.
C2_Witness ==
    /\ last.op = "step" /\ last.sim = 1 /\ last.t_end = 2 /\ sims[1].use_rk2
    /\ Len(Kernels(log)) = 2
    /\ Len(WindQueries(log)) = 2
    /\ sims[1].num_iterations = 1

\* What download returns after a step call that ran k sub-steps from fields c.
AfterSubSteps(c, k) == IF k = 0 THEN c ELSE Content(c.data, c.gen + k, FALSE, TRUE)

\* C3: between calls set 0 holds the current state: it is never a predictor, it is
\* boundary-conditioned once a sub-step produced it, a step call that ran k sub-steps
\* leaves in it the k-th successor of what it held, upload leaves the uploaded arrays
\* in it and copyState the other simulator's set 0.
C3_SetZeroAuthoritative ==
    [][ /\ \A s \in Sims : LET c == download(sims'[s])
                           IN  ~c.pred /\ (c.gen > 0 => c.bc)
        /\ last'.op = "step" =>
              LET s == last'.sim
                  k == sims'[s].num_iterations - sims[s].num_iterations
                  c == download(sims[s])
              IN  /\ [download(sims'[s]) EXCEPT !.bc = TRUE]
                        = [AfterSubSteps(c, k) EXCEPT !.bc = TRUE]
                  /\ k > 0 => download(sims'[s]).bc
        /\ last'.op = "upload" => download(sims'[last'.sim]) = Content(last'.data0, 0, FALSE, TRUE)
        /\ (last'.op = "copyState" /\ ~last'.raised) =>
              download(sims'[last'.sim]) = download(last'.otherSim) ]_vars

\* C3 witness: after an RK2 step of two sub-steps set 0 holds the second successor
\* and set 1 the predictor of the last sub-step.
C3_Witness ==
    /\ last.op = "step" /\ last.sim = 1 /\ sims[1].use_rk2
    /\ download(sims[1]).gen = 2 /\ download(sims[1]).bc
    /\ downloadPrevTimestep(sims[1]).pred

\* C4: the first step call after construction, whatever the initial clock value, has
\* applied boundary conditions exactly once to set 0 before its first launch of the
\* compute kernel.
C4_FirstStepAppliesBoundaryConditions ==
    (last.op = "step" /\ last.first /\ Kernels(log) # <<>>) =>
        LET before == SubSeq(log, 1, FirstKernel(log) - 1)
        IN  /\ Len(BoundaryPasses(before)) = 1
            /\ BoundaryPasses(before)[1].set = "h0"

\* C5 as claimed: a step call with t_end <= 0 returns the clock unchanged, leaves the
\* iteration counter and both buffer sets unchanged and launches neither the compute
\* kernel nor the boundary-condition kernel.
C5_NoOpStepLaunchesNothing ==
    [][ (last'.op = "step" /\ last'.t_end <= 0) =>
          LET s == last'.sim
          IN  /\ last'.ret = sims[s].t
              /\ sims'[s].t = sims[s].t
              /\ sims'[s].num_iterations = sims[s].num_iterations
              /\ sims'[s].dev = sims[s].dev
              /\ sims'[s].gpu_data = sims[s].gpu_data
              /\ Kernels(log') = <<>>
              /\ BoundaryPasses(log') = <<>> ]_vars

\* C5 amended: a step call with t_end <= 0 returns the clock unchanged, leaves the
\* iteration counter and set 1 unchanged and launches no compute kernel; it launches
\* the boundary-condition kernel, once and on set 0, exactly when the clock is 0, and
\* set 0 changes in nothing but its ghost cells.
C5_NoOpStepLaunchesNoComputeKernel ==
    [][ (last'.op = "step" /\ last'.t_end <= 0) =>
          LET s == last'.sim
          IN  /\ ~last'.raised
              /\ last'.ret = sims[s].t
              /\ sims'[s].t = sims[s].t
              /\ sims'[s].num_iterations = sims[s].num_iterations
              /\ sims'[s].gpu_data = sims[s].gpu_data
              /\ downloadPrevTimestep(sims'[s]) = downloadPrevTimestep(sims[s])
              /\ Kernels(log') = <<>>
              /\ IF sims[s].t = 0
                 THEN /\ Len(BoundaryPasses(log')) = 1
                      /\ BoundaryPasses(log')[1].set = "h0"
                      /\ download(sims'[s]) = [download(sims[s]) EXCEPT !.bc = TRUE]
                 ELSE /\ BoundaryPasses(log') = <<>>
                      /\ download(sims'[s]) = download(sims[s]) ]_vars

\* C5 witness: step(0) at clock 0 has run the boundary-condition kernel on a set 0
\* whose ghost cells were not yet set, and one forcing query.
C5_Witness ==
    /\ last.op = "step" /\ last.sim = 1 /\ last.t_end = 0 /\ last.first
    /\ sims[1].t = 0 /\ sims[1].use_rk2
    /\ Len(BoundaryPasses(log)) = 1
    /\ Len(WindQueries(log)) = 1
    /\ download(sims[1]).bc /\ ~downloadPrevTimestep(sims[1]).bc

\* C6: a step call that returns emits one snapshot when the writer is enabled and none
\* when it is not; the snapshot is the last thing the call does, after every sub-step,
\* and holds the returned clock time and the fields of set 0 at that time.
C6_OneSnapshotAfterLastSubStep ==
    (last.op = "step" /\ ~last.raised) =>
        LET sim == sims[last.sim]
        IN  IF sim.write_netcdf
            THEN /\ Len(Snapshots(log)) = 1
                 /\ log[Len(log)].k = "writeTimestep"
                 /\ log[Len(log)].t = last.ret
                 /\ log[Len(log)].t = sim.t
                 /\ log[Len(log)].fields = download(sim)
            ELSE Snapshots(log) = <<>>

\* C6 witness: a writing RK2 simulator has run a step of two sub-steps.
C6_Witness ==
    /\ last.op = "step" /\ last.sim = 1 /\ ~last.raised
    /\ sims[1].write_netcdf
    /\ Len(Kernels(log)) = 4
    /\ Len(Snapshots(log)) = 1
    /\ download(sims[1]).gen >= 2

\* C7 as claimed: on a strictly increasing axis a forcing query selects (0, 0) when the
\* time is before the first sample, (last, last) when it is after the last sample, and
\* otherwise two adjacent samples that enclose the time, with the fraction
\* (time - t0) / (t1 - t0).
C7_BracketSelection ==
    \A i \in 1 .. Len(log) :
        (log[i].k \in {"update_wind_stress", "update_atmospheric_pressure"}
            /\ StrictlyIncreasing(AxisOf(log[i]))) =>
            LET e == log[i]
                axis == AxisOf(e)
                lastIdx == Len(axis) - 1
            IN  IF e.t < At(axis, 0) THEN <<e.t0_index, e.t1_index>> = <<0, 0>>
                ELSE IF e.t > At(axis, lastIdx) THEN <<e.t0_index, e.t1_index>> = <<lastIdx, lastIdx>>
                ELSE /\ e.t1_index = e.t0_index + 1
                     /\ At(axis, e.t0_index) <= e.t /\ e.t <= At(axis, e.t1_index)
                     /\ FractionOf(e) = Ratio(e.t - e.new_t0, e.new_t1 - e.new_t0)

\* C7 amended: on a strictly increasing axis a forcing query selects (0, 0), with
\* fraction 0, when the time is at or before the first sample, (last, last) when it is
\* after the last sample, and otherwise the adjacent samples (i-1, i) with
\* axis[i-1] < time <= axis[i], with the fraction (time - t0) / (t1 - t0); new_t0 and
\* new_t1 are the timestamps at the selected indices.
C7_BracketSelectionAtOrBeforeFirst ==
    \A i \in 1 .. Len(log) :
        (log[i].k \in {"update_wind_stress", "update_atmospheric_pressure"}
            /\ StrictlyIncreasing(AxisOf(log[i]))) =>
            LET e == log[i]
                axis == AxisOf(e)
                lastIdx == Len(axis) - 1
            IN  /\ e.new_t0 = At(axis, e.t0_index) /\ e.new_t1 = At(axis, e.t1_index)
                /\ IF e.t <= At(axis, 0)
                   THEN /\ <<e.t0_index, e.t1_index>> = <<0, 0>>
                        /\ FractionOf(e) = <<0, 1>>
                   ELSE IF e.t > At(axis, lastIdx)
                   THEN <<e.t0_index, e.t1_index>> = <<lastIdx, lastIdx>>
                   ELSE /\ e.t1_index = e.t0_index + 1
                        /\ At(axis, e.t0_index) < e.t /\ e.t <= At(axis, e.t1_index)
                        /\ FractionOf(e) = Ratio(e.t - e.new_t0, e.new_t1 - e.new_t0)

\* C7 witness: the wind series with samples at ticks 0, 2, 4 (0 s, 10 s, 20 s) queried
\* at tick 1 (5 s): samples 0 and 1, fraction 1/2.
C7_Witness ==
    \E i \in 1 .. Len(log) :
        /\ log[i].k = "update_wind_stress" /\ log[i].series = 1 /\ log[i].t = 1
        /\ <<log[i].t0_index, log[i].t1_index>> = <<0, 1>>
        /\ <<log[i].new_t0, log[i].new_t1>> = <<0, 2>>
        /\ log[i].wind_stress_t = <<1, 2>>

\* C8 as claimed: a forcing query whose bracket is degenerate (new_t0 = new_t1) returns
\* the fraction 0, at every query time.
C8_DegenerateBracketFractionZero ==
    \A i \in 1 .. Len(log) :
        (log[i].k \in {"update_wind_stress", "update_atmospheric_pressure"}
            /\ log[i].new_t0 = log[i].new_t1) =>
            FractionOf(log[i]) = <<0, 1>>

\* C8 amended: a forcing query whose bracket is degenerate returns the fraction 0 when
\* the time is at or before the sample and the fraction 1 when it is after the sample
\* (by a tick; the quotient by the floor 1.0e-10 is clamped to 1).
C8_DegenerateBracketFractionClamped ==
    \A i \in 1 .. Len(log) :
        (log[i].k \in {"update_wind_stress", "update_atmospheric_pressure"}
            /\ log[i].new_t0 = log[i].new_t1) =>
            FractionOf(log[i]) = (IF log[i].t <= log[i].new_t0 THEN <<0, 1>> ELSE <<1, 1>>)

\* C8 witness: the wind series with samples at ticks 0, 2, 4 queried at tick 5 (25 s):
\* bracket (last, last) and fraction 1.
C8_Witness ==
    \E i \in 1 .. Len(log) :
        /\ log[i].k = "update_wind_stress" /\ log[i].series = 1 /\ log[i].t = 5
        /\ <<log[i].t0_index, log[i].t1_index>> = <<2, 2>>
        /\ log[i].wind_stress_t = <<1, 1>>

\* C9: a wind-stress query uploads the current snapshot buffer if and only if its
\* t0 index differs from the t0 index of the previous query (the one of construction
\* or of the previous refresh), and the next snapshot buffer if and only if its t1
\* index differs from the previous t1 index, on axes with repeated timestamps too.
C9_UploadIffIndexChanged ==
    \A i \in 1 .. Len(log) :
        log[i].k = "update_wind_stress" =>
            /\ Uploaded(log, i, "wind_stress_current_arr")
                  <=> (log[i].t0_index # log[i].old_indices[1])
            /\ Uploaded(log, i, "wind_stress_next_arr")
                  <=> (log[i].t1_index # log[i].old_indices[2])

\* C10: copyState from a simulator of another class or of another domain raises and
\* copies nothing: no buffer of the destination is written, and its buffer sets,
\* forcing reference, clock and iteration counter are what they were.
C10_CopyStateMismatchFailsFast ==
    [][ (/\ last'.op = "copyState"
         /\ \/ last'.otherSim.cls # sims[last'.sim].cls
            \/ last'.otherSim.ny # sims[last'.sim].ny
            \/ last'.otherSim.nx # sims[last'.sim].nx) =>
          LET s == last'.sim
          IN  /\ last'.raised
              /\ log' = <<>>
              /\ sims'[s].dev = sims[s].dev
              /\ sims'[s].gpu_data = sims[s].gpu_data
              /\ sims'[s].wind_stress = sims[s].wind_stress
              /\ sims'[s].t = sims[s].t
              /\ sims'[s].num_iterations = sims[s].num_iterations
              /\ sims' = sims ]_vars

\* C10 witness: copyState from a simulator of the same class with the same ny and
\* another nx was refused, on a destination that has been stepped and whose set 0
\* differs from the other simulator's.
C10_Witness ==
    /\ last.op = "copyState" /\ last.raised
    /\ last.otherSim.cls = sims[1].cls
    /\ last.otherSim.ny = sims[1].ny /\ last.otherSim.nx # sims[1].nx
    /\ sims[1].num_iterations > 0
    /\ download(sims[1]) # download(last.otherSim)

\* C11: after a copyState that returns, download and downloadPrevTimestep of the
\* destination give what they give on the other simulator, whatever both held and
\* whichever buffers carry their set 0 and set 1; the other simulator is unchanged.
C11_CopyStateCopiesBothSets ==
    [][ (last'.op = "copyState" /\ ~last'.raised) =>
          LET s == last'.sim
              o == last'.otherSim
          IN  /\ download(sims'[s]) = download(o)
              /\ downloadPrevTimestep(sims'[s]) = downloadPrevTimestep(o)
              /\ \A b \in Sims \ {s} : sims'[b] = sims[b]
              /\ o \in {sims[b] : b \in Sims} => o \in {sims'[b] : b \in Sims}
              /\ Len(SelectSeq(log', LAMBDA e : e.k = "copyBuffer")) = 2 ]_vars

\* C11 witness: the destination had run a sub-step and the other simulator two, so
\* that all four sets differed; after copyState the destination gives the other's.
C11_Witness ==
    /\ last.op = "copyState" /\ ~last.raised /\ last.sim = 1
    /\ last.otherSim = sims[2]
    /\ sims[1].num_iterations = 1 /\ sims[2].num_iterations = 2
    /\ download(sims[2]) # downloadPrevTimestep(sims[2])
    /\ download(sims[1]).gen = 2 /\ downloadPrevTimestep(sims[1]).pred
    /\ downloadPrevTimestep(sims[1]) = downloadPrevTimestep(sims[2])

\* C12: upload writes the first triple into set 0 and the second triple, or the first
\* when there is no second, into set 1, and then applies boundary conditions to set 0
\* and to nothing else; a download that follows gives the uploaded arrays with
\* boundary-conditioned ghost cells, whatever the simulator held before.
C12_UploadThenDownload ==
    [][ last'.op = "upload" =>
          LET s == last'.sim
              second == IF last'.data1 = None THEN last'.data0 ELSE last'.data1[1]
              ups == SelectSeq(log', LAMBDA e : e.k = "upload")
          IN  /\ ~last'.raised
              /\ download(sims'[s]) = Content(last'.data0, 0, FALSE, TRUE)
              /\ downloadPrevTimestep(sims'[s]).data = second
              /\ downloadPrevTimestep(sims'[s]).gen = 0
              /\ ~downloadPrevTimestep(sims'[s]).pred
              /\ Len(ups) = 2
              /\ <<ups[1].arr, ups[1].field>> = <<"h0", last'.data0>>
              /\ <<ups[2].arr, ups[2].field>> = <<"h1", second>>
              /\ Len(BoundaryPasses(log')) = 1
              /\ log'[Len(log')].k = "boundaryCondition" /\ log'[Len(log')].set = "h0"
              /\ sims'[s].t = sims[s].t
              /\ sims'[s].num_iterations = sims[s].num_iterations ]_vars

\* C12 witness: an upload with a second triple on a simulator that has run sub-steps.
C12_Witness ==
    /\ last.op = "upload" /\ last.sim = 1 /\ last.data1 # None
    /\ sims[1].num_iterations >= 2
    /\ download(sims[1]).data = 3 /\ download(sims[1]).bc
    /\ downloadPrevTimestep(sims[1]).data = 4

\* C13 as claimed: a simulator built by fromfilename from a record written at clock
\* time T starts with clock T, iteration counter 0, RK2 iff the record's integrator
\* order is 2, the record's boundary conditions, and set 0 equal to the last fields
\* written.
C13_ResumeRoundTrip ==
    (last.op = "fromfilename" /\ ~last.raised) =>
        LET sim == sims[last.sim]
            r == last.sim_reader
        IN  /\ sim.t = r.time0
            /\ sim.num_iterations = 0
            /\ sim.use_rk2 <=> (r.time_integrator = 2)
            /\ sim.boundary_conditions = r.boundary_conditions
            /\ download(sim) = r.eta0

\* C13 amended: as claimed, except that the elevation the simulator starts with is
\* max(eta, -Hm) of the elevation written: the fields written, unless they lie below
\* the bed somewhere, and then the fields lifted to the bed there.
C13_ResumeRoundTripAdjustedForDryStates ==
    (last.op = "fromfilename" /\ ~last.raised) =>
        LET sim == sims[last.sim]
            r == last.sim_reader
        IN  /\ sim.t = r.time0
            /\ sim.num_iterations = 0
            /\ sim.use_rk2 <=> (r.time_integrator = 2)
            /\ sim.boundary_conditions = r.boundary_conditions
            /\ IF r.eta0.gen = 0 /\ r.eta0.data \in BelowBed
               THEN /\ download(sim).data = Clamped[r.eta0.data]
                    /\ [download(sim) EXCEPT !.data = r.eta0.data] = r.eta0
               ELSE download(sim) = r.eta0

\* C13 witness: a simulator resumed from a record that an RK2 simulator with periodic
\* boundaries wrote at a clock time other than 0 after running sub-steps.
C13_Witness ==
    /\ last.op = "fromfilename" /\ ~last.raised
    /\ last.sim_reader.time0 > 0 /\ last.sim_reader.time_integrator = 2
    /\ last.sim_reader.eta0.gen >= 2
    /\ last.sim_reader.boundary_conditions.north = "periodic"
    /\ sims[1].t = last.sim_reader.time0 /\ sims[1].num_iterations = 0
    /\ download(sims[1]) = last.sim_reader.eta0

\* C14: when a kernel launch or a forcing upload of a step call fails, the failure is
\* the last thing the call does: nothing is launched, uploaded or written after it, no
\* snapshot is emitted, and the clock, the iteration counter and set 0 are those of
\* the sub-steps completed before it.
C14_FailurePropagates ==
    [][ (last'.op = "step" /\ last'.raised) =>
          LET s == last'.sim
              done == Completing(log', sims[s])
          IN  /\ Len(Failures(log')) = 1
              /\ log'[Len(log')].k = "failed"
              /\ Snapshots(log') = <<>>
              /\ sims'[s].num_iterations - sims[s].num_iterations = Len(done)
              /\ sims'[s].t - sims[s].t = SumLocalDt(done)
              /\ last'.ret = sims'[s].t
              /\ download(sims'[s]).gen = download(sims[s]).gen + Len(done)
              /\ download(sims'[s]).data = download(sims[s]).data ]_vars

\* C14 witness: a writing RK2 simulator whose device rejected stage 1 of the second
\* sub-step: three launches took place, one sub-step is counted, no snapshot.
C14_Witness ==
    /\ last.op = "step" /\ last.raised /\ last.sim = 1
    /\ sims[1].write_netcdf /\ sims[1].use_rk2
    /\ log[Len(log)].k = "failed" /\ log[Len(log)].op = "swe_2D" /\ log[Len(log)].stage = 1
    /\ Len(Kernels(log)) = 3
    /\ sims[1].t = last.ret /\ downloadPrevTimestep(sims[1]).pred

\* C15: constructing a simulator whose boundary conditions have a sponge edge succeeds,
\* with nx grown by the east and west sponge widths less the two ghost-cell bands and
\* ny grown by the north and south widths likewise.
C15_SpongeAbsorbedAtConstruction ==
    (/\ last.op = "KP07"
     /\ "sponge" \in {last.boundary_conditions.north, last.boundary_conditions.east,
                      last.boundary_conditions.south, last.boundary_conditions.west}) =>
        LET sc == last.boundary_conditions.spongeCells
        IN  /\ ~last.raised
            /\ sims[last.sim].boundary_conditions = last.boundary_conditions
            /\ sims[last.sim].ny = last.domain[1] + sc[1] + sc[3] - 4
            /\ sims[last.sim].nx = last.domain[2] + sc[2] + sc[4] - 4

\* C16: every call of the compute kernel that step makes, in the Euler branch and in
\* both RK2 stages, passes the argument list the kernel was prepared with, which ends
\* with the four wind-stress buffers and the interpolation fraction, and a stage
\* index of 0 or 1.
C16_KernelArgumentsMatchPreparedFormat ==
    \A i \in 1 .. Len(Launches(log)) :
        LET e == Launches(log)[i]
        IN  /\ e.args = Swe2DFormat
            /\ Len(e.args) >= 5
            /\ SubSeq(e.args, Len(e.args) - 4, Len(e.args)) = <<"P", "P", "P", "P", "f">>
            /\ e.stage \in {0, 1}

C18_EulerSubStepSequence ==
    [][ (last'.op = "step" /\ ~sims[last'.sim].use_rk2 /\ last'.t_end > 0) =>
          LET s == last'.sim
              ops == StageOps(log')
              body == IF sims[s].t = 0 THEN Tail(ops) ELSE ops
              n == sims'[s].num_iterations - sims[s].num_iterations
          IN  /\ ~last'.raised
              /\ n >= 1
              /\ Len(body) = 3 * n
              /\ \A j \in 0 .. n - 1 :
                    LET kernel == body[3 * j + 1]
                        rest == {body[3 * j + 2], body[3 * j + 3]}
                    IN  /\ kernel.k = "swe_2D" /\ kernel.stage = 0
                        /\ kernel.rd # kernel.wr
                        /\ \E e \in rest : e.k = "swap"
                        /\ \E e \in rest : e.k = "boundaryCondition" /\ e.buf = kernel.wr
              /\ sims'[s].gpu_data.h0 = body[Len(body) - 2].wr
              /\ sims'[s].gpu_data.h1 = body[Len(body) - 2].rd
              /\ download(sims'[s]).bc ]_vars

\* C19: in every execution, no kernel stage reads a buffer set whose last write was
\* not followed by a boundary-condition pass on that set.
C19_BoundaryConditionsBeforeEveryRead ==
    \A i \in 1 .. Len(Kernels(log)) : Kernels(log)[i].input.bc

CurrentArrOf(e) ==
    IF e.k = "update_wind_stress" THEN "wind_stress_current_arr"
    ELSE "atmospheric_pressure_current_arr"

NextArrOf(e) ==
    IF e.k = "update_wind_stress" THEN "wind_stress_next_arr"
    ELSE "atmospheric_pressure_next_arr"

\* The query at position i of l is the last one of l.
LastQuery(l, i) ==
    \A m \in i + 1 .. Len(l) :
        l[m].k \notin {"update_wind_stress", "update_atmospheric_pressure"}

WindowInRange(axis, indices) ==
    /\ 0 <= indices[1] /\ indices[1] <= indices[2] /\ indices[2] <= Len(axis) - 1
    /\ indices[2] - indices[1] \in {0, 1}

\* A fraction in lowest terms that lies in [0, 1].
InUnitInterval(frac) == 0 <= frac[1] /\ frac[1] <= frac[2] /\ frac[2] >= 1

\* C22: the window computed at construction and by every refresh satisfies
\* 0 <= t0_index <= t1_index <= length - 1 with t1_index - t0_index in {0, 1}, the
\* fraction returned lies in [0, 1], and the indices of a refresh are not below the
\* indices of the refresh (or construction) before it.
C22_WindowInRangeAndMonotone ==
    /\ \A s \in Sims :
          /\ WindowInRange(WindStressObjects[sims[s].wind_stress], sims[s].wind_stress_indices)
          /\ WindowInRange(AtmosphericPressureObjects[sims[s].atmospheric_pressure],
                           sims[s].atmospheric_pressure_indices)
    /\ \A i \in 1 .. Len(log) :
          log[i].k \in {"update_wind_stress", "update_atmospheric_pressure"} =>
              /\ WindowInRange(AxisOf(log[i]), <<log[i].t0_index, log[i].t1_index>>)
              /\ InUnitInterval(FractionOf(log[i]))
              /\ log[i].t0_index >= log[i].old_indices[1]
              /\ log[i].t1_index >= log[i].old_indices[2]

\* C22 witness: the wind series with samples at ticks 0, 2, 4 refreshed at tick 3
\* after a refresh in the first interval: window (1, 2) after (0, 1), fraction 1/2.
C22_Witness ==
    \E i \in 1 .. Len(log) :
        /\ log[i].k = "update_wind_stress" /\ log[i].series = 1 /\ log[i].t = 3
        /\ log[i].old_indices = <<0, 1>>
        /\ <<log[i].t0_index, log[i].t1_index>> = <<1, 2>>
        /\ log[i].wind_stress_t = <<1, 2>>

\* The snapshot buffers of the forcing fields.
SnapshotArrs ==
    {"wind_stress_current_arr", "wind_stress_next_arr",
     "atmospheric_pressure_current_arr", "atmospheric_pressure_next_arr"}

\* The uploads of forcing snapshots in l, as positions.
SnapshotUploads(l) == {j \in 1 .. Len(l) : l[j].k = "upload" /\ l[j].arr \in SnapshotArrs}

\* C23: every upload of a forcing snapshot comes right after a synchronize of the
\* stream and of the context, starts with nothing in flight on the stream, and is
\* followed at once by a synchronize, so that the stream is drained when the refresh
\* returns and no kernel launch finds a snapshot transfer in flight; every
\* synchronize of a call belongs to such an upload, so a refresh that uploads nothing
\* synchronises nothing.
C23_SnapshotUploadsSynchronised ==
    /\ \A j \in SnapshotUploads(log) :
          /\ j >= 3 /\ j + 1 <= Len(log)
          /\ log[j - 2].k = "stream.synchronize"
          /\ log[j - 1].k = "ctx.synchronize"
          /\ log[j + 1].k = "ctx.synchronize"
          /\ log[j].in_flight = {}
    /\ \A i \in 1 .. Len(log) :
          /\ log[i].k \in {"stream.synchronize", "ctx.synchronize"} =>
                \E j \in SnapshotUploads(log) \cup {Len(log)} :
                    /\ i \in {j - 2, j - 1, j + 1}
                    /\ log[j].k \in {"upload", "failed"}
          /\ log[i].k = "swe_2D" => "snapshot" \notin log[i].in_flight
    /\ (last.op \in {"update_wind_stress", "update_atmospheric_pressure"}
           /\ SnapshotUploads(log) # {}) => sims[last.sim].gpu_stream = {}

\* C23 witness: a step call whose second sub-step found the wind bracket changed:
\* kernels of the first sub-step were enqueued, then a snapshot was uploaded, then
\* the kernels of the second sub-step were launched.
C23_Witness ==
    /\ last.op = "step" /\ ~last.raised
    /\ \E j \in SnapshotUploads(log) :
          /\ \E i \in 1 .. j - 1 : log[i].k = "swe_2D"
          /\ \E i \in j + 1 .. Len(log) : log[i].k = "swe_2D"

\* C24: a copyState that copies drains the stream of the destination and the stream
\* of the source before the first buffer is copied, so that no copy starts while
\* something is in flight on either, and drains them again after the last copy, so
\* that the destination's stream is idle when the call returns.
C24_CopyStateSynchronisesBothStreams ==
    /\ \A i \in 1 .. Len(log) :
          (log[i].k = "copyBuffer" /\ \A j \in 1 .. i - 1 : log[j].k # "copyBuffer") =>
              /\ log[i].other_in_flight = {}
              /\ log[i].in_flight = {}
    /\ (last.op = "copyState" /\ ~last.raised) =>
          /\ sims[last.sim].gpu_stream = {}
          /\ \E i \in 1 .. Len(log) : log[i].k \in {"stream.synchronize", "ctx.synchronize"}

\* ceil(a / b) for a > 0, b > 0.
CeilDiv(a, b) == (a + b - 1) \div b

\* C25: a step call with t_end > 0 executes ceil(t_end / dt) sub-steps, all but the
\* last with local_dt = dt and the last with the positive remainder, and advances the
\* clock by t_end; when t_end is a multiple of dt, one more iteration refreshes the
\* wind stress and ends the loop without a kernel launch.
C25_SubStepCountAndRemainder ==
    [][ (last'.op = "step" /\ last'.t_end > 0) =>
          LET s == last'.sim
              dt == sims[s].dt
              t_end == last'.t_end
              n == CeilDiv(t_end, dt)
              done == Completing(log', sims[s])
          IN  /\ ~last'.raised
              /\ Len(done) = n
              /\ sims'[s].num_iterations = sims[s].num_iterations + n
              /\ \A i \in 1 .. n - 1 : done[i].local_dt = dt
              /\ done[n].local_dt = t_end - (n - 1) * dt /\ done[n].local_dt > 0
              /\ sims'[s].t = sims[s].t + t_end
              /\ Len(WindQueries(log')) = (IF t_end % dt = 0 THEN n + 1 ELSE n)
              /\ (t_end % dt = 0) =>
                    \E i \in 1 .. Len(log') :
                        /\ log'[i].k = "update_wind_stress"
                        /\ \A m \in i + 1 .. Len(log') :
                               log'[m].k \notin {"swe_2D", "update_wind_stress"} ]_vars

\* C26: on a strictly increasing axis a query at a time equal to sample k >= 1 selects
\* the bracket (k-1, k) with fraction 1, and a query at the time of the first sample
\* selects (0, 0) with fraction 0; a query at sample k that finds the bracket
\* (k-1, k) cached, the clock having been inside the interval, uploads nothing.
C26_BracketsHalfOpenOnTheLeft ==
    \A i \in 1 .. Len(log) :
        (log[i].k \in {"update_wind_stress", "update_atmospheric_pressure"}
            /\ StrictlyIncreasing(AxisOf(log[i]))) =>
            LET e == log[i]
                axis == AxisOf(e)
            IN  /\ \A k \in 1 .. Len(axis) - 1 :
                      e.t = At(axis, k) =>
                          /\ <<e.t0_index, e.t1_index>> = <<k - 1, k>>
                          /\ FractionOf(e) = <<1, 1>>
                          /\ e.old = <<At(axis, k - 1), At(axis, k)>> =>
                                /\ ~Uploaded(log, i, CurrentArrOf(e))
                                /\ ~Uploaded(log, i, NextArrOf(e))
                /\ e.t = At(axis, 0) =>
                      /\ <<e.t0_index, e.t1_index>> = <<0, 0>>
                      /\ FractionOf(e) = <<0, 1>>

\* C26 witness: the wind series with samples at ticks 0, 2, 4 queried at tick 2 after
\* a query inside the first interval: bracket (0, 1), fraction 1, nothing uploaded.
C26_Witness ==
    \E i \in 1 .. Len(log) :
        /\ log[i].k = "update_wind_stress" /\ log[i].series = 1 /\ log[i].t = 2
        /\ log[i].old = <<0, 2>>
        /\ <<log[i].t0_index, log[i].t1_index>> = <<0, 1>>
        /\ log[i].wind_stress_t = <<1, 1>>
        /\ ~Uploaded(log, i, "wind_stress_current_arr")
        /\ ~Uploaded(log, i, "wind_stress_next_arr")

\* C27: after every refresh of the wind stress on a series with strictly increasing
\* timestamps, the series the simulator has at the refresh, the current snapshot
\* buffer holds the field of that series at t0_index and the next snapshot buffer the
\* field at t1_index, also when copyState has replaced the series.
C27_SnapshotsOfPresentSeries ==
    \A i \in 1 .. Len(log) :
        (/\ last.op \in {"step", "update_wind_stress"}
         /\ log[i].k = "update_wind_stress"
         /\ LastQuery(log, i)
         /\ Failures(log) = <<>>
         /\ StrictlyIncreasing(AxisOf(log[i]))) =>
            /\ log[i].series = sims[last.sim].wind_stress
            /\ sims[last.sim].wind_stress_current_arr = <<log[i].series, log[i].t0_index>>
            /\ sims[last.sim].wind_stress_next_arr = <<log[i].series, log[i].t1_index>>

\* Position j of l is the last wind-stress query before position i.
QueryBefore(l, j, i) ==
    /\ j < i /\ l[j].k = "update_wind_stress"
    /\ \A m \in j + 1 .. i - 1 : l[m].k # "update_wind_stress"

\* The positions of the kernel launches in l, in order.
KernelPositions(l) == {i \in 1 .. Len(l) : l[i].k = "swe_2D"}

\* C28: in an RK2 step call the kernel launches come in pairs, stage 0 then stage 1,
\* with the same local_dt and the same interpolation fraction, the one the refresh
\* at the start of the sub-step returned for the clock time of that moment; the clock
\* is the same at both launches and differs from the next pair's by local_dt, and
\* the boundary-condition pass of stage 1 comes before the next refresh.
C28_RK2StagesShareStepAndFraction ==
    [][ (last'.op = "step" /\ sims[last'.sim].use_rk2) =>
          LET s == last'.sim
              ks == Kernels(log')
              n == Len(ks) \div 2
          IN  /\ Len(ks) = 2 * n
              /\ sims'[s].t = sims[s].t + SumLocalDt(Completing(log', sims[s]))
              /\ \A i \in 1 .. n :
                    /\ ks[2 * i - 1].stage = 0 /\ ks[2 * i].stage = 1
                    /\ ks[2 * i - 1].local_dt = ks[2 * i].local_dt
                    /\ ks[2 * i - 1].wind_stress_t = ks[2 * i].wind_stress_t
                    /\ ks[2 * i - 1].t = ks[2 * i].t
                    /\ ks[2 * i].t = (IF i = 1 THEN sims[s].t
                                       ELSE ks[2 * i - 2].t + ks[2 * i - 2].local_dt)
              /\ \A p \in KernelPositions(log') :
                    /\ \E j \in 1 .. p - 1 :
                          /\ QueryBefore(log', j, p)
                          /\ log'[j].t = log'[p].t
                          /\ log'[j].wind_stress_t = log'[p].wind_stress_t
                    /\ log'[p].stage = 1 =>
                          /\ p + 1 <= Len(log')
                          /\ log'[p + 1].k = "boundaryCondition"
                          /\ log'[p + 1].set = "h0" ]_vars

\* C28 witness: an RK2 step call of two sub-steps, the second with the remainder as
\* local_dt and a fraction of 1/2 at both of its stages.
C28_Witness ==
    /\ last.op = "step" /\ last.sim = 1 /\ ~last.raised /\ sims[1].use_rk2
    /\ Len(Kernels(log)) = 4
    /\ Kernels(log)[1].local_dt = 2 /\ Kernels(log)[3].local_dt = 1
    /\ Kernels(log)[1].wind_stress_t = <<0, 1>>
    /\ Kernels(log)[3].wind_stress_t = <<1, 2>> /\ Kernels(log)[4].wind_stress_t = <<1, 2>>

\* C29: the writer of a simulator is closed at most once; closeNetCDF and cleanUp
\* close it when it is open, do nothing to it otherwise, and leave write_netcdf
\* False; a step call made after the writer was closed or the simulator cleaned up
\* emits no snapshot.
C29_CloseNetCDFIdempotent ==
    [][ /\ \A s \in Sims : sims'[s].sim_writer_exits <= 1
        /\ last'.op \in {"closeNetCDF", "cleanUp"} =>
              /\ ~sims'[last'.sim].write_netcdf
              /\ sims'[last'.sim].sim_writer_exits
                    = sims[last'.sim].sim_writer_exits
                        + (IF sims[last'.sim].write_netcdf THEN 1 ELSE 0)
        /\ (last'.op = "step"
               /\ (sims[last'.sim].sim_writer_exits >= 1 \/ sims[last'.sim].released)) =>
              /\ Snapshots(log') = <<>>
              /\ sims'[last'.sim].sim_writer_exits = sims[last'.sim].sim_writer_exits ]_vars

\* C29 witness: an RK2 step call that ran a sub-step and emitted nothing, on a
\* simulator whose writer had been closed once and which had been cleaned up after
\* that.
C29_Witness ==
    /\ last.op = "step" /\ ~last.raised /\ sims[1].use_rk2
    /\ Len(Kernels(log)) >= 2 /\ Snapshots(log) = <<>>
    /\ sims[1].sim_writer_exits = 1 /\ sims[1].released

\* The clock, the iteration counter and the cached bracket timestamps of a simulator.
ClockAndCaches(sim) ==
    <<sim.t, sim.num_iterations, sim.wind_stress_timestamps,
      sim.atmospheric_pressure_timestamps>>

\* C30: upload, copyState, download and downloadPrevTimestep leave the clock, the
\* iteration counter and the cached bracket timestamps of every simulator as they
\* were, so a destination keeps its own clock after copyState from a simulator at
\* another time; of these calls and step, only step changes any of them.
C30_AccessorsKeepClockAndCaches ==
    [][ /\ last'.op \in {"upload", "copyState", "download", "downloadPrevTimestep"} =>
              \A s \in Sims : ClockAndCaches(sims'[s]) = ClockAndCaches(sims[s])
        /\ (\E s \in Sims : ClockAndCaches(sims'[s]) # ClockAndCaches(sims[s])) =>
              /\ last'.op = "step"
              /\ \A s \in Sims \ {last'.sim} :
                    ClockAndCaches(sims'[s]) = ClockAndCaches(sims[s]) ]_vars

\* C30 witness: copyState has copied the state of a simulator at another clock time
\* and with another iteration count into a simulator that had been stepped: the
\* destination holds the other's fields and its own clock.
C30_Witness ==
    /\ last.op = "copyState" /\ ~last.raised
    /\ last.otherSim.t # sims[1].t
    /\ sims[1].num_iterations = 1 /\ last.otherSim.num_iterations = 2
    /\ download(sims[1]) = download(last.otherSim)
    /\ sims[1].wind_stress_timestamps # last.otherSim.wind_stress_timestamps

====
